---- MODULE Spec2Model ----
(***************************************************************************)
(* Model of the job orchestration core of inemaVOX:                        *)
(*   src/api/job_manager.py  (Job, JobManager)                             *)
(*   src/api/server.py       (the WebSocket endpoint that owns the sinks)  *)
(*                                                                         *)
(* The program is an asyncio application: one event loop runs one task at  *)
(* a time and a task gives up the loop only at an await that suspends.     *)
(* The variable cur names the task that holds the loop between two of its  *)
(* steps without having suspended; every other task waits until it is      *)
(* NoTask.  The pipeline process, the clients behind the sinks and the     *)
(* clock are outside the loop and step at any time.                        *)
(*                                                                         *)
(* Job ids are str(uuid4())[:8]; the model draws them fresh (1, 2, ...),   *)
(* in submission order.                                                    *)
(***************************************************************************)
EXTENDS Integers, Sequences, FiniteSets, TLC

\* ---------------------------------------------------------------- bounds
MaxJobs == 2        \* number of create_job calls
MaxSinks == 2       \* number of WebSocket connections
MaxClients == 1     \* of them, those that connect while checkpoints are written
MaxTime == 2        \* largest value the clock reaches
MaxCancels == 1     \* cancel_job calls that may be suspended in _notify at once
MaxStep == 12       \* largest last_step_num written, in absolute value
MaxRecords == 15    \* record_job_complete calls when the sample windows are watched
MaxTotals == 52     \* record_job_complete calls when total_times is watched
MaxLearn == 2       \* record_job_complete calls before estimates are asked

\* ------------------------------------------------------------- constants
SIGTERM == 15
SIGKILL == 9
NoTime == -1        \* None in created_at / started_at / finished_at
NoTask == -1        \* the event loop is between tasks
WorkerTask == 0     \* JobManager._worker_task

Ids == 1..MaxJobs
Sinks == 1..MaxSinks
Clients == 1..MaxClients
CancelTasks == 1..MaxCancels
Tasks == {WorkerTask} \cup CancelTasks

\* exit codes a process is let to report: success, an error, death by signal
ExitCodes == {0, 1, -SIGTERM, -SIGKILL}

\* job configurations, by what _build_command needs: is the key "input" there
Configs == {[input |-> TRUE], [input |-> FALSE]}

Terminal == {"completed", "failed", "cancelled"}

VARIABLES
    jobs,         \* JobManager.jobs: id -> Job
    njobs,        \* number of ids drawn so far
    queue,        \* JobManager.queue
    subscribers,  \* JobManager._subscribers: id -> list of sinks
    proc,         \* the operating-system process behind Job.process
    checkpoint,   \* the file <workdir>/dub_work/checkpoint.json of each job
    now,          \* the clock: what time.time() returns
    wpc,          \* position of the worker task
    wjob,         \* the job the worker is in _run_job for (0: none)
    pub,          \* per task: the _notify call it is in
    cur,          \* the task holding the event loop
    ws,           \* per sink: position of its websocket_job_progress handler
    wsjob,        \* per sink: the job id of its connection
    open,         \* per sink: the client is still connected
    log,          \* per sink: the events it has received
    accepted,     \* ids whose process a cancel_job call has terminated
    ret,          \* how the last cancel or delete request ended
    jobs_completed, \* stats store: the counter "jobs_completed"
    stalled,      \* the sinks whose client has stopped reading
    late,         \* per sink: the publishes still in progress that began
                  \* before one whose event the sink has already received
    stage_times,  \* stats store: profile key -> stage id -> samples and avg
    total_times,  \* stats store: the history of total durations
    nsamples,     \* per profile key and stage id: samples recorded so far
    est,          \* what the last estimate_remaining call returned
    seen,         \* what the last GET /api/jobs/id returned
    shown         \* per sink: the connected snapshot sent to it showed a
                  \* status that is not terminal ("live") or one that is

vars == <<jobs, njobs, queue, subscribers, proc, checkpoint, now, wpc, wjob,
          pub, cur, ws, wsjob, open, log, accepted, ret, jobs_completed,
          stalled, late, stage_times, total_times, nsamples, est, seen,
          shown>>

\* ------------------------------------------------------------ checkpoint
\* Contents of a checkpoint file, by what _read_checkpoint and
\* _calc_progress do with them.
\*   absent  : no file                     garbage : not JSON
\*   array   : JSON, but not an object     nokey   : object without last_step_num
\*   strnum  : last_step_num is a string   object  : last_step_num = num
File(kind, num) == [kind |-> kind, num |-> num]
NoFile == File("absent", 0)

stages == <<"download", "extraction", "transcription", "translation",
            "split", "tts", "fade", "sync", "concat", "mux">>

\* json.loads of the file, {} when it is absent or does not parse
_read_checkpoint(file) ==
    IF file.kind \in {"absent", "garbage"} THEN File("nokey", 0) ELSE file

\* checkpoint.get("last_step_num", 0) raises on a value that is not a dict;
\* the division raises on a string; stages[last_step] raises below -len.
CalcRaises(cp) ==
    \/ cp.kind = "array"
    \/ cp.kind = "strnum"
    \/ cp.kind = "object" /\ cp.num < -Len(stages)

\* round(x) of Python 3 for x = n / d, d > 0: to nearest, ties to even
Round(n, d) ==
    LET q == n \div d
        r == n % d
    IN  IF 2 * r < d THEN q
        ELSE IF 2 * r > d THEN q + 1
        ELSE IF q % 2 = 0 THEN q ELSE q + 1

\* Python indexing of stages with a possibly negative index
StageAt(i) == IF i >= 0 THEN stages[i + 1] ELSE stages[Len(stages) + i + 1]

\* _calc_progress that takes a missing last_step_num for 1
_calc_progress_DefaultOne(cp) ==
    LET last_step == IF cp.kind = "object" THEN cp.num ELSE 1
        total == Len(stages)
    IN  [current_stage |-> last_step,
         total_stages |-> total,
         percent |-> Round(last_step * 100, total),
         stage_name |-> IF last_step < total THEN StageAt(last_step)
                        ELSE "completed"]

\* _calc_progress that names the last stage done, not the next one
_calc_progress_LastDone(cp) ==
    LET last_step == IF cp.kind = "object" THEN cp.num ELSE 0
        total == Len(stages)
    IN  [current_stage |-> last_step,
         total_stages |-> total,
         percent |-> Round(last_step * 100, total),
         stage_name |-> IF last_step >= total THEN "completed"
                        ELSE IF last_step > 0 THEN StageAt(last_step - 1)
                        ELSE StageAt(last_step)]

_calc_progress(cp) ==
    LET last_step == IF cp.kind = "object" THEN cp.num ELSE 0
        total == Len(stages)
    IN  [current_stage |-> last_step,
         total_stages |-> total,
         percent |-> Round(last_step * 100, total),
         stage_name |-> IF last_step < total THEN StageAt(last_step)
                        ELSE "completed"]

\* Job.to_dict raises exactly when _calc_progress does
ToDictRaises(file) == CalcRaises(_read_checkpoint(file))

\* what the pipeline is let to write while it runs
WrittenFiles == {File("object", 3), File("array", 0)}

\* ------------------------------------------------------------------ Job
NoError == [kind |-> "none", code |-> 0]
ExitError(n) == [kind |-> "exit", code |-> n]        \* f"Exit code: {n}"
ExcError == [kind |-> "exception", code |-> 0]       \* str(e)

NewJob(config, t) ==
    [status |-> "queued", config |-> config, created_at |-> t,
     started_at |-> NoTime, finished_at |-> NoTime,
     process |-> FALSE, error |-> NoError]

\* record_job_complete line 47, on the counter
record_job_complete(n) == n + 1

\* _run_job lines 130-131
MarkStarted(job, t) == [job EXCEPT !.status = "running", !.started_at = t]

\* ExitStatus with SIGKILL left out of the cancellation signals
ExitStatus_TermOnly(code) ==
    IF code = 0 THEN "completed"
    ELSE IF code = -SIGTERM THEN "cancelled"
    ELSE "failed"

\* ExitStatus that takes every failure for a cancellation
ExitStatus_NonZero(code) ==
    IF code = 0 THEN "completed" ELSE "cancelled"

\* _run_job lines 165-171: the status for an exit code
ExitStatus(code) ==
    IF code = 0 THEN "completed"
    ELSE IF code = -SIGTERM \/ code = -SIGKILL THEN "cancelled"
    ELSE "failed"

\* _run_job lines 162-171: the worker records the exit of the process
MarkExited(job, code, t) ==
    [job EXCEPT !.finished_at = t,
                !.status = ExitStatus(code),
                !.error = IF ExitStatus(code) = "failed" THEN ExitError(code)
                          ELSE @]

\* _run_job lines 173-176: an exception during spawn or monitoring
MarkRaised(job, t) ==
    [job EXCEPT !.status = "failed", !.error = ExcError, !.finished_at = t]

\* MarkCancelled that leaves finished_at alone
MarkCancelled_NoFinish(job, t) ==
    [job EXCEPT !.status = "cancelled"]

\* MarkCancelled that stores the elapsed time instead of the time
MarkCancelled_Elapsed(job, t) ==
    [job EXCEPT !.status = "cancelled", !.finished_at = t - job.started_at]

\* cancel_job lines 259-260
MarkCancelled(job, t) ==
    [job EXCEPT !.status = "cancelled", !.finished_at = t]

\* ------------------------------------------------------------- processes
\* none: not spawned; alive: running; killed: running with SIGKILL pending;
\* exited: ended with code
NoProc == [state |-> "none", code |-> 0]
AliveProc == [state |-> "alive", code |-> 0]
KilledProc == [state |-> "killed", code |-> 0]
ExitedProc(c) == [state |-> "exited", code |-> c]

\* job.process.poll() is None
Alive(j) == proc[j].state \in {"alive", "killed"}

\* ----------------------------------------------------------------- hub
\* A _notify call in progress: the list it iterates (subs), how many sinks
\* it has sent to (idx), whether subs is still the list object stored in
\* _subscribers (live), the sinks whose send raised (dead), whether it is
\* inside a send_json that does not return (hung), and the tasks whose
\* _notify for the same job was in progress when it began (after).
NoPub == [ev |-> "none", job |-> 0, subs |-> <<>>, idx |-> 0,
          live |-> FALSE, dead |-> {}, hung |-> FALSE, after |-> {}]

\* the _notify calls for job j that are in progress
Publishing(j) == {t \in Tasks : pub[t].ev # "none" /\ pub[t].job = j}

\* _notify line 283
BeginNotify(ev, j) ==
    [ev |-> ev, job |-> j, subs |-> subscribers[j], idx |-> 0,
     live |-> TRUE, dead |-> {}, hung |-> FALSE, after |-> Publishing(j)]

Without(list, S) == SelectSeq(list, LAMBDA w : w \notin S)

\* What a sink has received; a run of progress events is kept as one.
Deliver(l, ev) ==
    IF ev = "progress" /\ Len(l) > 0 /\ l[Len(l)] = "progress" THEN l
    ELSE Append(l, ev)

\* subscribe appends in place: a _notify iterating that list sees the sink
SubscribeIn(p, j, s) ==
    [t \in Tasks |->
        IF p[t].job = j /\ p[t].live
        THEN [p[t] EXCEPT !.subs = Append(@, s)] ELSE p[t]]

\* unsubscribe stores a new list: a _notify in progress keeps the old one
DetachIn(p, j) ==
    [t \in Tasks |->
        IF p[t].job = j THEN [p[t] EXCEPT !.live = FALSE] ELSE p[t]]

\* Put that enqueues the id twice
Put_Twice(q, id) == q \o <<id, id>>

\* Put at the head of the queue: last in, first out
Put_Front(q, id) == <<id>> \o q

\* asyncio.Queue.put
Put(q, id) == Append(q, id)

\* _worker line 106
ShouldRun(id) == id \in DOMAIN jobs /\ jobs[id].status = "queued"

\* AfterNotify of a worker that does not wait for the run it has started
AfterNotify_NoWait(ev) ==
    CASE ev = "started" -> "get"
      [] ev = "progress" -> "poll"
      [] ev = "finished" -> "get"

\* _run_job: where the worker goes on once _notify(ev) has returned
AfterNotify(ev) ==
    CASE ev = "started" -> "spawn"
      [] ev = "progress" -> "poll"
      [] ev = "finished" -> "get"

\* How a request ended: cancel_job returns True or False or raises; the
\* DELETE handler with delete=true answers 404 or raises.
Ret(op, j, val) == [op |-> op, job |-> j, val |-> val]
NoRet == Ret("none", 0, "none")

\* CanCancel without the poll: a process handle is enough
CanCancel_NoPoll(j) == j \in DOMAIN jobs /\ jobs[j].process

\* cancel_job lines 249-253: the job is known and its process is running
CanCancel(j) == j \in DOMAIN jobs /\ jobs[j].process /\ Alive(j)

\* A task steps only when no other task holds the loop.
MayRun(t) == cur \in {NoTask, t}

\* ------------------------------------------------------------ stats store
\* stats_tracker.py.  Durations a caller supplies are in hundredths of a
\* second; what the code has rounded to one decimal is in tenths of a second.
\* Arithmetic is exact: the durations drawn never sit half way between two
\* tenths, where the result of round on a float depends on its binary form.
WindowCap == 10     \* samples kept per profile and stage
TotalsCap == 50     \* entries kept in total_times

STAGES == <<"download", "extraction", "transcription", "translation",
            "split", "tts", "sync", "concat", "postprocess", "mux">>
StageIds == {STAGES[i] : i \in 1..Len(STAGES)}

\* the "num" of a stage of the catalog
StageNum(sid) == CHOOSE i \in 1..Len(STAGES) : STAGES[i] = sid

\* a job configuration, by the keys the stats engine reads; Absent: no key
Absent == "absent"
StatConfig(tts, trans, whisper) ==
    [tts_engine |-> tts, translation_engine |-> trans, whisper_model |-> whisper]
StatConfigs == {StatConfig(Absent, Absent, Absent),
                StatConfig("bark", "ollama", Absent)}
Devices == {"cpu", "cuda"}

\* dict.get(key, default)
Get(value, default) == IF value = Absent THEN default ELSE value

\* lines 50-53 and 92-95: f"{tts}_{trans}_{whisper}_{device}"
ProfileKey(config, device) ==
    <<Get(config.tts_engine, "edge"), Get(config.translation_engine, "m2m100"),
      Get(config.whisper_model, "large-v3"), device>>
ProfileKeys == {ProfileKey(c, d) : c \in StatConfigs, d \in Devices}

RECURSIVE SumSeq(_)
SumSeq(q) == IF q = <<>> THEN 0 ELSE Head(q) + SumSeq(Tail(q))

\* round(duration, 1): hundredths to tenths
Round1(h) == Round(h, 10)

\* line 63
NewEntry == [samples |-> <<>>, avg |-> 0]

\* AddSample that evicts the newest sample
AddSample_DropNewest(entry, duration) ==
    LET appended == Append(entry.samples, Round1(duration))
        samples == IF Len(appended) > WindowCap
                   THEN SubSeq(appended, 1, WindowCap) ELSE appended
    IN  [samples |-> samples, avg |-> Round(SumSeq(samples), Len(samples))]

\* AddSample that averages before it evicts
AddSample_StaleAvg(entry, duration) ==
    LET appended == Append(entry.samples, Round1(duration))
        samples == IF Len(appended) > WindowCap THEN Tail(appended)
                   ELSE appended
    IN  [samples |-> samples, avg |-> Round(SumSeq(appended), Len(appended))]

\* lines 65-69: append, drop the oldest beyond the cap, average
AddSample(entry, duration) ==
    LET appended == Append(entry.samples, Round1(duration))
        samples == IF Len(appended) > WindowCap THEN Tail(appended)
                   ELSE appended
    IN  [samples |-> samples, avg |-> Round(SumSeq(samples), Len(samples))]

\* lines 57-60: the profile of a key, created empty when missing
ProfileOf(st, key) == IF key \in DOMAIN st THEN st[key] ELSE <<>>

\* RecordStages that keeps only the stages of this call
RecordStages_Fresh(profile, times) ==
    [sid \in DOMAIN times |->
        AddSample(IF sid \in DOMAIN profile THEN profile[sid]
                  ELSE NewEntry, times[sid])]

\* lines 61-69: times maps some stage ids to durations
RecordStages(profile, times) ==
    [sid \in DOMAIN profile \cup DOMAIN times |->
        IF sid \in DOMAIN times
        THEN AddSample(IF sid \in DOMAIN profile THEN profile[sid]
                       ELSE NewEntry, times[sid])
        ELSE profile[sid]]

\* AddTotal that keeps the first entries
AddTotal_KeepOldest(totals, entry) ==
    LET a == Append(totals, entry)
    IN  IF Len(a) > TotalsCap THEN SubSeq(a, 1, TotalsCap) ELSE a

\* lines 74-80
AddTotal(totals, entry) ==
    LET a == Append(totals, entry)
    IN  IF Len(a) > TotalsCap THEN SubSeq(a, Len(a) - TotalsCap + 1, Len(a))
        ELSE a

\* _tts_default, in tenths
_tts_default(engine, is_gpu) ==
    CASE engine = "edge" -> 1200
      [] engine = "bark" -> IF is_gpu THEN 600 ELSE 6000
      [] engine = "xtts" -> IF is_gpu THEN 1200 ELSE 9000
      [] engine = "piper" -> 300
      [] OTHER -> 1200

\* _default_stage_time, in tenths
_default_stage_time(stage_id, config, device) ==
    LET is_gpu == device = "cuda"
        tts == Get(config.tts_engine, "edge")
    IN  CASE stage_id = "download" -> 300
          [] stage_id = "extraction" -> 50
          [] stage_id = "transcription" -> IF ~is_gpu THEN 1200 ELSE 300
          [] stage_id = "translation" ->
                IF config.translation_engine # "ollama" THEN 600 ELSE 1800
          [] stage_id = "split" -> 50
          [] stage_id = "tts" -> _tts_default(tts, is_gpu)
          [] stage_id = "sync" -> 150
          [] stage_id = "concat" -> 100
          [] stage_id = "postprocess" -> 100
          [] stage_id = "mux" -> 100
          [] OTHER -> 300

\* lines 110-111: profile.get(sid, {}).get("avg") is truthy
HasAvg(profile, sid) == sid \in DOMAIN profile /\ profile[sid].avg # 0

\* lines 110-118: the estimate of a pending stage
StageEstimate(profile, sid, config, device) ==
    IF HasAvg(profile, sid) THEN profile[sid].avg
    ELSE _default_stage_time(sid, config, device)

\* StageEstimates that takes the current stage for pending
StageEstimates_Strict(profile, config, current_stage, device) ==
    [sid \in StageIds |->
        IF StageNum(sid) < current_stage THEN [status |-> "done"]
        ELSE [status |-> "pending",
              est_seconds |-> StageEstimate(profile, sid, config, device)]]

\* StageEstimates with the comparison turned round
StageEstimates_Reversed(profile, config, current_stage, device) ==
    [sid \in StageIds |->
        IF StageNum(sid) >= current_stage THEN [status |-> "done"]
        ELSE [status |-> "pending",
              est_seconds |-> StageEstimate(profile, sid, config, device)]]

\* lines 105-118 and 131-138: stage id -> status and estimate
StageEstimates(profile, config, current_stage, device) ==
    [sid \in StageIds |->
        IF StageNum(sid) <= current_stage THEN [status |-> "done"]
        ELSE [status |-> "pending",
              est_seconds |-> StageEstimate(profile, sid, config, device)]]

\* the sum the loops keep in remaining, over the stages from num i on
RECURSIVE Remaining(_, _)
Remaining(estimates, i) ==
    IF i > Len(STAGES) THEN 0
    ELSE (IF estimates[STAGES[i]].status = "pending"
          THEN estimates[STAGES[i]].est_seconds ELSE 0)
         + Remaining(estimates, i + 1)

\* _default_estimate: no profile is consulted
_default_estimate(config, current_stage, device) ==
    LET estimates == StageEstimates(<<>>, config, current_stage, device)
    IN  [eta_seconds |-> Round(Remaining(estimates, 1), 10),
         confidence |-> "low",
         stage_estimates |-> estimates]

\* estimate_remaining on the store st (stage_elapsed is not read)
estimate_remaining(st, config, current_stage, device) ==
    LET key == ProfileKey(config, device)
        profile == ProfileOf(st, key)
        estimates == StageEstimates(profile, config, current_stage, device)
    IN  IF DOMAIN profile = {}
        THEN _default_estimate(config, current_stage, device)
        ELSE [eta_seconds |-> Round(Remaining(estimates, 1), 10),
              confidence |-> IF Cardinality(DOMAIN profile) >= 5 THEN "high"
                             ELSE "medium",
              stage_estimates |-> estimates]

NoEstimate ==
    [asked |-> FALSE, config |-> StatConfig(Absent, Absent, Absent),
     current_stage |-> 0, device |-> "cpu",
     result |-> [eta_seconds |-> 0, confidence |-> "none",
                 stage_estimates |-> <<>>]]

\* ------------------------------------------------------- GET /api/jobs/id
NoProgress == [current_stage |-> 0, total_stages |-> 0, percent |-> 0,
               stage_name |-> "none"]
NoSeen == [job |-> 0, file |-> NoFile, raised |-> FALSE, progress |-> NoProgress]

\* ---------------------------------------------------------------- Init
Init ==
    /\ jobs = <<>>
    /\ njobs = 0
    /\ queue = <<>>
    /\ subscribers = [j \in Ids |-> <<>>]
    /\ proc = [j \in Ids |-> NoProc]
    /\ checkpoint = [j \in Ids |-> NoFile]
    /\ now = 0
    /\ wpc = "get"
    /\ wjob = 0
    /\ pub = [t \in Tasks |-> NoPub]
    /\ cur = NoTask
    /\ ws = [s \in Sinks |-> "new"]
    /\ wsjob = [s \in Sinks |-> 0]
    /\ open = [s \in Sinks |-> TRUE]
    /\ log = [s \in Sinks |-> <<>>]
    /\ accepted = {}
    /\ ret = NoRet
    /\ jobs_completed = 0
    /\ stalled = {}
    /\ late = [s \in Sinks |-> {}]
    /\ stage_times = <<>>
    /\ total_times = <<>>
    /\ nsamples = [k \in ProfileKeys, sid \in StageIds |-> 0]
    /\ est = NoEstimate
    /\ seen = NoSeen
    /\ shown = [s \in Sinks |-> "none"]

\* ------------------------------------------------------------ create_job
\* create_job lines 112-126.  The id is new: no sink is subscribed to it and
\* its checkpoint file does not exist, so to_dict returns and
\* _notify("created") sends nothing and does not suspend.
CreateJob(config) ==
    /\ cur = NoTask
    /\ njobs < MaxJobs
    /\ jobs' = jobs @@ ((njobs + 1) :> NewJob(config, now))
    /\ njobs' = njobs + 1
    /\ queue' = Put(queue, njobs + 1)
    /\ UNCHANGED <<subscribers, proc, checkpoint, now, wpc, wjob, pub, cur,
                   ws, wsjob, open, log, accepted,
                   ret, jobs_completed, stalled, late,
                   stage_times, total_times, nsamples, est, seen, shown>>

\* create_job lines 112-126 when the first 8 hex digits of the uuid4 drawn
\* are those of an id j in use: line 118 stores the new Job over the old one
\* and the id is queued again.  Taken here only while the old Job is at rest
\* (ended, process gone, not held by the worker, no sink, not being
\* published); the work directory, checkpoint.json included, is the old one.
CreateJobAgain(config, j) ==
    /\ cur = NoTask
    /\ j \in DOMAIN jobs
    /\ jobs[j].status \in Terminal
    /\ ~Alive(j)
    /\ wjob # j
    /\ Publishing(j) = {}
    /\ subscribers[j] = <<>>
    /\ ~ToDictRaises(checkpoint[j])
    /\ jobs' = [jobs EXCEPT ![j] = NewJob(config, now)]
    /\ queue' = Put(queue, j)
    /\ proc' = [proc EXCEPT ![j] = NoProc]
    /\ accepted' = accepted \ {j}
    /\ UNCHANGED <<njobs, subscribers, checkpoint, now, wpc, wjob, pub, cur,
                   ws, wsjob, open, log,
                   ret, jobs_completed, stalled, late,
                   stage_times, total_times, nsamples, est, seen, shown>>

\* ---------------------------------------------------------------- worker
\* _worker lines 104-108 and _run_job lines 130-132: take the next id; if its
\* job is queued mark it running and start publishing "started".
WorkerGet ==
    /\ MayRun(WorkerTask)
    /\ wpc = "get"
    /\ queue # <<>>
    /\ queue' = Tail(queue)
    /\ IF ShouldRun(Head(queue))
       THEN /\ jobs' = [jobs EXCEPT ![Head(queue)] = MarkStarted(@, now)]
            /\ wjob' = Head(queue)
            /\ IF ToDictRaises(checkpoint[Head(queue)])
               THEN /\ wpc' = "crashed"
                    /\ cur' = NoTask
                    /\ pub' = pub
               ELSE /\ wpc' = "notify"
                    /\ cur' = WorkerTask
                    /\ pub' = [pub EXCEPT ![WorkerTask] =
                                   BeginNotify("started", Head(queue))]
       ELSE /\ cur' = IF Tail(queue) # <<>> THEN WorkerTask ELSE NoTask
            /\ UNCHANGED <<jobs, wjob, wpc, pub>>
    /\ UNCHANGED <<njobs, subscribers, proc, checkpoint, now, ws, wsjob, open,
                   log, accepted,
                   ret, jobs_completed, stalled, late,
                   stage_times, total_times, nsamples, est, seen, shown>>

\* _run_job lines 134-152: build the command and spawn the process.
\* config["input"] raises KeyError outside the try; an exception of open or
\* Popen is caught by line 173.
WorkerSpawn ==
    /\ MayRun(WorkerTask)
    /\ wpc = "spawn"
    /\ IF ~jobs[wjob].config.input
       THEN /\ wpc' = "crashed"
            /\ cur' = NoTask
            /\ UNCHANGED <<jobs, proc>>
       ELSE \/ /\ proc' = [proc EXCEPT ![wjob] = AliveProc]
               /\ jobs' = [jobs EXCEPT ![wjob].process = TRUE]
               /\ wpc' = "poll"
               /\ cur' = WorkerTask
            \/ /\ jobs' = [jobs EXCEPT ![wjob] = MarkRaised(@, now)]
               /\ wpc' = "finish"
               /\ cur' = WorkerTask
               /\ proc' = proc
    /\ UNCHANGED <<njobs, queue, subscribers, checkpoint, now, wjob, pub, ws,
                   wsjob, open, log, accepted,
                   ret, jobs_completed, stalled, late,
                   stage_times, total_times, nsamples, est, seen, shown>>

\* _run_job lines 155-171: poll the process; sleep while it is alive, record
\* its exit otherwise.
WorkerPoll ==
    /\ MayRun(WorkerTask)
    /\ wpc = "poll"
    /\ IF Alive(wjob)
       THEN /\ wpc' = "sleep"
            /\ cur' = NoTask
            /\ jobs' = jobs
       ELSE /\ jobs' = [jobs EXCEPT ![wjob] =
                           MarkExited(@, proc[wjob].code, now)]
            /\ wpc' = "finish"
            /\ cur' = WorkerTask
    /\ UNCHANGED <<njobs, queue, subscribers, proc, checkpoint, now, wjob,
                   pub, ws, wsjob, open, log, accepted,
                   ret, jobs_completed, stalled, late,
                   stage_times, total_times, nsamples, est, seen, shown>>

\* _run_job lines 156-160: asyncio.sleep returns; build the snapshot and start
\* publishing "progress".  to_dict raising is caught by line 173.
WorkerWake ==
    /\ MayRun(WorkerTask)
    /\ wpc = "sleep"
    /\ cur' = WorkerTask
    /\ IF ToDictRaises(checkpoint[wjob])
       THEN /\ jobs' = [jobs EXCEPT ![wjob] = MarkRaised(@, now)]
            /\ wpc' = "finish"
            /\ pub' = pub
       ELSE /\ wpc' = "notify"
            /\ pub' = [pub EXCEPT ![WorkerTask] = BeginNotify("progress", wjob)]
            /\ jobs' = jobs
    /\ UNCHANGED <<njobs, queue, subscribers, proc, checkpoint, now, wjob, ws,
                   wsjob, open, log, accepted,
                   ret, jobs_completed, stalled, late,
                   stage_times, total_times, nsamples, est, seen, shown>>

\* _run_job line 178: build the snapshot (outside the try) and start
\* publishing "finished".
WorkerFinish ==
    /\ MayRun(WorkerTask)
    /\ wpc = "finish"
    /\ IF ToDictRaises(checkpoint[wjob])
       THEN /\ wpc' = "crashed"
            /\ cur' = NoTask
            /\ pub' = pub
       ELSE /\ wpc' = "notify"
            /\ cur' = WorkerTask
            /\ pub' = [pub EXCEPT ![WorkerTask] = BeginNotify("finished", wjob)]
    /\ UNCHANGED <<jobs, njobs, queue, subscribers, proc, checkpoint, now,
                   wjob, ws, wsjob, open, log, accepted,
                   ret, jobs_completed, stalled, late,
                   stage_times, total_times, nsamples, est, seen, shown>>

\* --------------------------------------------------------------- _notify
\* _notify lines 285-289: one send_json; the task suspends in it.  The send
\* raises when the client is gone or the handler has closed the connection.
Send(t) ==
    /\ MayRun(t)
    /\ pub[t].ev # "none"
    /\ ~pub[t].hung
    /\ pub[t].idx < Len(pub[t].subs)
    /\ LET s == pub[t].subs[pub[t].idx + 1] IN
         IF ~(open[s] /\ ws[s] \in {"connected", "subscribed"})
         THEN /\ pub' = [pub EXCEPT ![t].idx = @ + 1, ![t].dead = @ \cup {s}]
              /\ UNCHANGED <<log, late>>
         ELSE IF s \in stalled
         THEN /\ pub' = [pub EXCEPT ![t].hung = TRUE]
              /\ UNCHANGED <<log, late>>
         ELSE /\ pub' = [pub EXCEPT ![t].idx = @ + 1]
              /\ log' = [log EXCEPT ![s] = Deliver(@, pub[t].ev)]
              /\ late' = [late EXCEPT ![s] = @ \cup pub[t].after]
    /\ cur' = NoTask
    /\ UNCHANGED <<jobs, njobs, queue, subscribers, proc, checkpoint, now,
                   wpc, wjob, ws, wsjob, open, accepted,
                   ret, jobs_completed, stalled,
                   stage_times, total_times, nsamples, est, seen, shown>>

\* the send_json task t is inside raises at last: the client has gone away
SendFails(t) ==
    /\ MayRun(t)
    /\ pub[t].hung
    /\ ~open[pub[t].subs[pub[t].idx + 1]]
    /\ pub' = [pub EXCEPT ![t].hung = FALSE, ![t].idx = @ + 1,
                          ![t].dead = @ \cup {pub[t].subs[pub[t].idx + 1]}]
    /\ cur' = t
    /\ UNCHANGED <<jobs, njobs, queue, subscribers, proc, checkpoint, now,
                   wpc, wjob, ws, wsjob, open, log, accepted,
                   ret, jobs_completed, stalled, late,
                   stage_times, total_times, nsamples, est, seen, shown>>

\* Pruned that drops the whole subscriber list once a send has raised
Pruned_All(t) ==
    IF pub[t].dead = {} THEN subscribers
    ELSE [subscribers EXCEPT ![pub[t].job] = <<>>]

\* _notify lines 290-291 for task t: unsubscribe the sinks whose send raised
Pruned(t) ==
    IF pub[t].dead = {} THEN subscribers
    ELSE [subscribers EXCEPT ![pub[t].job] = Without(@, pub[t].dead)]

\* pub once the _notify of task t has returned
EndNotify(t) ==
    LET p == IF pub[t].dead = {} THEN pub ELSE DetachIn(pub, pub[t].job)
    IN  [u \in Tasks |->
            IF u = t THEN NoPub ELSE [p[u] EXCEPT !.after = @ \ {t}]]

\* late once the _notify of task t has returned
Forget(t) == [s \in Sinks |-> late[s] \ {t}]

\* The worker's _notify returns and _run_job goes on (after "finished":
\* _worker's task_done and the next queue.get).
WorkerNotified ==
    /\ MayRun(WorkerTask)
    /\ wpc = "notify"
    /\ pub[WorkerTask].idx >= Len(pub[WorkerTask].subs)
    /\ subscribers' = Pruned(WorkerTask)
    /\ pub' = EndNotify(WorkerTask)
    /\ wpc' = AfterNotify(pub[WorkerTask].ev)
    /\ IF AfterNotify(pub[WorkerTask].ev) = "get"
       THEN /\ wjob' = 0
            /\ cur' = IF queue # <<>> THEN WorkerTask ELSE NoTask
       ELSE /\ wjob' = wjob
            /\ cur' = WorkerTask
    /\ late' = Forget(WorkerTask)
    /\ UNCHANGED <<jobs, njobs, queue, proc, checkpoint, now, ws, wsjob,
                   open, log, accepted, ret, jobs_completed, stalled,
                   stage_times, total_times, nsamples, est, seen, shown>>

\* ------------------------------------------------------------ cancel_job
\* cancel_job lines 249-251 and 263, run by task h: an unknown id, a job
\* without a process or with a process that has ended; return False.
CancelRefused(h, j) ==
    /\ cur = NoTask
    /\ pub[h].ev = "none"
    /\ ~CanCancel(j)
    /\ ret' = Ret("cancel", j, "false")
    /\ UNCHANGED <<jobs, njobs, queue, subscribers, proc, checkpoint, now,
                   wpc, wjob, pub, cur, ws, wsjob, open, log, accepted,
                   jobs_completed, stalled, late,
                   stage_times, total_times, nsamples, est, seen, shown>>

\* cancel_job lines 252-261, run by task h.  terminate and the blocking
\* wait(timeout=10) happen without giving up the loop: the process ends
\* within the wait with some exit code, or the wait times out and kill()
\* leaves it with SIGKILL pending (a process that already has SIGKILL pending
\* is gone within the wait).  Then status and finished_at are set and
\* "cancelled" is published; to_dict raising ends the call.
CancelJob(h, j) ==
    /\ cur = NoTask
    /\ pub[h].ev = "none"
    /\ CanCancel(j)
    /\ \/ \E c \in ExitCodes :
            /\ proc[j].state = "killed" => c = -SIGKILL
            /\ proc' = [proc EXCEPT ![j] = ExitedProc(c)]
       \/ /\ proc[j].state = "alive"
          /\ proc' = [proc EXCEPT ![j] = KilledProc]
    /\ jobs' = [jobs EXCEPT ![j] = MarkCancelled(@, now)]
    /\ accepted' = accepted \cup {j}
    /\ IF ToDictRaises(checkpoint[j])
       THEN /\ pub' = pub
            /\ cur' = NoTask
            /\ ret' = Ret("cancel", j, "raised")
       ELSE /\ pub' = [pub EXCEPT ![h] = BeginNotify("cancelled", j)]
            /\ cur' = h
            /\ ret' = ret
    /\ UNCHANGED <<njobs, queue, subscribers, checkpoint, now, wpc, wjob, ws,
                   wsjob, open, log, jobs_completed, stalled, late,
                   stage_times, total_times, nsamples, est, seen, shown>>

\* cancel_job line 262: _notify has returned, the call returns True
CancelNotified(h) ==
    /\ MayRun(h)
    /\ pub[h].ev = "cancelled"
    /\ pub[h].idx >= Len(pub[h].subs)
    /\ subscribers' = Pruned(h)
    /\ pub' = EndNotify(h)
    /\ cur' = NoTask
    /\ ret' = Ret("cancel", pub[h].job, "true")
    /\ late' = Forget(h)
    /\ UNCHANGED <<jobs, njobs, queue, proc, checkpoint, now, wpc, wjob, ws,
                   wsjob, open, log, accepted, jobs_completed, stalled,
                   stage_times, total_times, nsamples, est, seen, shown>>

\* ---------------------------------------------------- DELETE /api/jobs/id
\* server.py lines 749-757 with delete=true: 404 for an unknown id; for a
\* known one the handler calls job_manager.delete_job, which JobManager does
\* not define: AttributeError, and the registry is as it was.
DeleteRequest(j) ==
    /\ cur = NoTask
    /\ ret' = IF j \in DOMAIN jobs THEN Ret("delete", j, "raised")
              ELSE Ret("delete", j, "404")
    /\ UNCHANGED <<jobs, njobs, queue, subscribers, proc, checkpoint, now,
                   wpc, wjob, pub, cur, ws, wsjob, open, log, accepted,
                   jobs_completed, stalled, late,
                   stage_times, total_times, nsamples, est, seen, shown>>

\* server.py lines 749-752 and 758-762, delete not set, when cancel_job is
\* not called or returns False at once: 404 for an unknown id; for a job
\* marked running the handler calls cancel_job, drops what it returns and
\* answers "cancelled"; for any other job it answers the job's status.  (When
\* cancel_job accepts, the call is CancelJob and CancelNotified, and the
\* handler answers "cancelled" on its return.)
CancelRequest(j) ==
    /\ cur = NoTask
    /\ ~(j \in DOMAIN jobs /\ jobs[j].status = "running" /\ CanCancel(j))
    /\ ret' = IF j \notin DOMAIN jobs THEN Ret("request", j, "404")
              ELSE IF jobs[j].status = "running"
              THEN Ret("request", j, "cancelled")
              ELSE Ret("request", j, jobs[j].status)
    /\ UNCHANGED <<jobs, njobs, queue, subscribers, proc, checkpoint, now,
                   wpc, wjob, pub, cur, ws, wsjob, open, log, accepted,
                   jobs_completed, stalled, late,
                   stage_times, total_times, nsamples, est, seen, shown>>

\* ------------------------------------------------- websocket_job_progress
\* WsConnect that sends no snapshot
WsConnect_NoSnapshot(s, j) ==
    /\ cur = NoTask
    /\ ws[s] = "new"
    /\ j \in DOMAIN jobs
    /\ ws' = [ws EXCEPT ![s] = IF open[s] THEN "connected" ELSE "closed"]
    /\ wsjob' = [wsjob EXCEPT ![s] = j]
    /\ UNCHANGED <<jobs, njobs, queue, subscribers, proc, checkpoint, now,
                   wpc, wjob, pub, cur, open, log, accepted,
                   ret, jobs_completed, stalled, late,
                   stage_times, total_times, nsamples, est, seen, shown>>

\* server.py lines 770-779: accept, look the job up, send the "connected"
\* snapshot.  to_dict or the send raising ends the handler.
WsConnect(s, j) ==
    /\ cur = NoTask
    /\ ws[s] = "new"
    /\ j \in DOMAIN jobs
    /\ IF open[s] /\ ~ToDictRaises(checkpoint[j])
       THEN /\ ws' = [ws EXCEPT ![s] = "connected"]
            /\ log' = [log EXCEPT ![s] = Deliver(@, "connected")]
            /\ shown' = [shown EXCEPT ![s] =
                             IF jobs[j].status \in Terminal THEN "ended"
                             ELSE "live"]
       ELSE /\ ws' = [ws EXCEPT ![s] = "closed"]
            /\ log' = log
            /\ shown' = shown
    /\ wsjob' = [wsjob EXCEPT ![s] = j]
    /\ UNCHANGED <<jobs, njobs, queue, subscribers, proc, checkpoint, now,
                   wpc, wjob, pub, cur, open, accepted,
                   ret, jobs_completed, stalled, late,
                   stage_times, total_times, nsamples, est, seen>>

\* server.py line 782 and subscribe lines 272-275
WsSubscribe(s) ==
    /\ cur = NoTask
    /\ ws[s] = "connected"
    /\ subscribers' = [subscribers EXCEPT ![wsjob[s]] = Append(@, s)]
    /\ pub' = SubscribeIn(pub, wsjob[s], s)
    /\ ws' = [ws EXCEPT ![s] = "subscribed"]
    /\ UNCHANGED <<jobs, njobs, queue, proc, checkpoint, now, wpc, wjob, cur,
                   wsjob, open, log, accepted,
                   ret, jobs_completed, stalled, late,
                   stage_times, total_times, nsamples, est, seen, shown>>

\* server.py lines 790-793 and unsubscribe lines 277-279: receive_text
\* raises WebSocketDisconnect and the handler unsubscribes its sink
WsClose(s) ==
    /\ cur = NoTask
    /\ ws[s] = "subscribed"
    /\ ~open[s]
    /\ subscribers' = [subscribers EXCEPT ![wsjob[s]] = Without(@, {s})]
    /\ pub' = DetachIn(pub, wsjob[s])
    /\ ws' = [ws EXCEPT ![s] = "closed"]
    /\ UNCHANGED <<jobs, njobs, queue, proc, checkpoint, now, wpc, wjob, cur,
                   wsjob, open, log, accepted,
                   ret, jobs_completed, stalled, late,
                   stage_times, total_times, nsamples, est, seen, shown>>

\* --------------------------------------------------------- stats engine
\* record_job_complete lines 46-82; the timestamp of an entry of total_times
\* is the number of the call, calls being numbered in the order of their
\* time.time().
RecordJobComplete(job_config, times, total_time, device) ==
    LET key == ProfileKey(job_config, device) IN
    /\ jobs_completed' = record_job_complete(jobs_completed)
    /\ stage_times' =
          [k \in DOMAIN stage_times \cup {key} |->
              IF k = key THEN RecordStages(ProfileOf(stage_times, key), times)
              ELSE stage_times[k]]
    /\ total_times' =
          AddTotal(total_times, [profile |-> key,
                                 total |-> Round1(total_time),
                                 timestamp |-> jobs_completed + 1])
    /\ nsamples' = [k \in ProfileKeys, sid \in StageIds |->
                      nsamples[k, sid]
                      + IF k = key /\ sid \in DOMAIN times THEN 1 ELSE 0]
    /\ UNCHANGED <<jobs, njobs, queue, subscribers, proc, checkpoint, now,
                   wpc, wjob, pub, cur, ws, wsjob, open, log, accepted, ret,
                   stalled, late, est, seen, shown>>

\* estimate_remaining lines 90-124
Estimate(job_config, current_stage, device) ==
    /\ est' = [asked |-> TRUE, config |-> job_config,
               current_stage |-> current_stage, device |-> device,
               result |-> estimate_remaining(stage_times, job_config,
                                             current_stage, device)]
    /\ UNCHANGED <<jobs, njobs, queue, subscribers, proc, checkpoint, now,
                   wpc, wjob, pub, cur, ws, wsjob, open, log, accepted, ret,
                   jobs_completed, stalled, late, stage_times, total_times,
                   nsamples, seen, shown>>

\* server.py lines 382-388: the snapshot of a known job, or the exception of
\* to_dict
GetJob(j) ==
    /\ cur = NoTask
    /\ j \in DOMAIN jobs
    /\ seen' = IF ToDictRaises(checkpoint[j])
               THEN [job |-> j, file |-> checkpoint[j], raised |-> TRUE,
                     progress |-> NoProgress]
               ELSE [job |-> j, file |-> checkpoint[j], raised |-> FALSE,
                     progress |->
                         _calc_progress(_read_checkpoint(checkpoint[j]))]
    /\ UNCHANGED <<jobs, njobs, queue, subscribers, proc, checkpoint, now,
                   wpc, wjob, pub, cur, ws, wsjob, open, log, accepted, ret,
                   jobs_completed, stalled, late, stage_times, total_times,
                   nsamples, est, shown>>

\* ------------------------------------------------------------ environment
\* the client of a sink goes away
ClientDisconnect(s) ==
    /\ ws[s] \in {"connected", "subscribed"}
    /\ open[s]
    /\ open' = [open EXCEPT ![s] = FALSE]
    /\ UNCHANGED <<jobs, njobs, queue, subscribers, proc, checkpoint, now,
                   wpc, wjob, pub, cur, ws, wsjob, log, accepted,
                   ret, jobs_completed, stalled, late,
                   stage_times, total_times, nsamples, est, seen, shown>>

\* the client of a sink stops reading: a send_json to it does not return
ClientStall(s) ==
    /\ ws[s] \in {"connected", "subscribed"}
    /\ open[s]
    /\ s \notin stalled
    /\ stalled' = stalled \cup {s}
    /\ UNCHANGED <<jobs, njobs, queue, subscribers, proc, checkpoint, now,
                   wpc, wjob, pub, cur, ws, wsjob, open, log, accepted,
                   ret, jobs_completed, late,
                   stage_times, total_times, nsamples, est, seen, shown>>

\* the pipeline process ends: by itself, by a signal from outside, or by the
\* pending SIGKILL
ProcExit(j) ==
    /\ Alive(j)
    /\ \E c \in ExitCodes :
         /\ proc[j].state = "killed" => c = -SIGKILL
         /\ proc' = [proc EXCEPT ![j] = ExitedProc(c)]
    /\ UNCHANGED <<jobs, njobs, queue, subscribers, checkpoint, now, wpc,
                   wjob, pub, cur, ws, wsjob, open, log, accepted,
                   ret, jobs_completed, stalled, late,
                   stage_times, total_times, nsamples, est, seen, shown>>

\* the pipeline process writes its checkpoint file
ProcWrite(j, f) ==
    /\ Alive(j)
    /\ checkpoint[j] # f
    /\ checkpoint' = [checkpoint EXCEPT ![j] = f]
    /\ UNCHANGED <<jobs, njobs, queue, subscribers, proc, now, wpc, wjob,
                   pub, cur, ws, wsjob, open, log, accepted,
                   ret, jobs_completed, stalled, late,
                   stage_times, total_times, nsamples, est, seen, shown>>

\* time passes
Tick ==
    /\ now < MaxTime
    /\ now' = now + 1
    /\ UNCHANGED <<jobs, njobs, queue, subscribers, proc, checkpoint, wpc,
                   wjob, pub, cur, ws, wsjob, open, log, accepted,
                   ret, jobs_completed, stalled, late,
                   stage_times, total_times, nsamples, est, seen, shown>>

\* ------------------------------------------------------------------ Next
\* the worker task without its sends
WorkerStep ==
    \/ WorkerGet
    \/ WorkerSpawn
    \/ WorkerPoll
    \/ WorkerWake
    \/ WorkerFinish
    \/ WorkerNotified

\* the job manager and the processes it spawns
NextCore ==
    \/ \E c \in Configs : CreateJob(c)
    \/ WorkerStep
    \/ \E h \in CancelTasks, j \in Ids : CancelJob(h, j)
    \/ \E h \in CancelTasks : CancelNotified(h)
    \/ \E j \in Ids : ProcExit(j)

\* requests that leave the job manager as it was
NextRequests ==
    \/ \E h \in CancelTasks, j \in Ids : CancelRefused(h, j)
    \/ \E j \in Ids : DeleteRequest(j)
    \/ \E j \in Ids : CancelRequest(j)

\* the checkpoint files
NextFiles == \E j \in Ids, f \in WrittenFiles : ProcWrite(j, f)

\* the sinks in S: their WebSocket handlers, their clients and the sends
SinkStep(S) ==
    \/ \E t \in Tasks : Send(t)
    \/ \E s \in S, j \in Ids : WsConnect(s, j)
    \/ \E s \in S : WsSubscribe(s)
    \/ \E s \in S : WsClose(s)
    \/ \E s \in S : ClientDisconnect(s)

NextSinks == SinkStep(Clients)

\* clients that stop reading
NextStall ==
    \/ \E s \in Clients : ClientStall(s)
    \/ \E t \in Tasks : SendFails(t)

Next == NextCore \/ NextFiles \/ NextSinks

\* The program, with the clock standing still.
Spec == Init /\ [][Next]_vars

\* The job manager with no sink connected and no checkpoint written.
SpecCore == Init /\ [][NextCore]_vars

\* The same, with time passing.
NextClock == NextCore \/ Tick
SpecClock == Init /\ [][NextClock]_vars

\* SpecCore under the scheduling the event loop gives: a task that can step
\* does step, and a process that can end does end.
FairSpec ==
    /\ SpecCore
    /\ WF_vars(WorkerStep)
    /\ \A h \in CancelTasks : WF_vars(CancelNotified(h))
    /\ \A j \in Ids : WF_vars(ProcExit(j))

\* The job manager and the checkpoint files, no sink connected.
NextWritten == NextCore \/ NextFiles
SpecFiles == Init /\ [][NextWritten]_vars

\* The job manager with the requests it refuses.
NextAnswered == NextCore \/ NextRequests
SpecRequests == Init /\ [][NextAnswered]_vars

\* One job and all sinks, no checkpoint written.
NextHub ==
    \/ \E c \in Configs : njobs = 0 /\ CreateJob(c)
    \/ WorkerStep
    \/ \E h \in CancelTasks, j \in Ids : CancelJob(h, j)
    \/ \E h \in CancelTasks : CancelNotified(h)
    \/ \E j \in Ids : ProcExit(j)
    \/ SinkStep(Sinks)
SpecHub == Init /\ [][NextHub]_vars

\* The job manager and clients that may stop reading, under the scheduling
\* of the event loop.
NextStalled == NextCore \/ NextSinks \/ NextStall
SpecStall == Init /\ [][NextStalled]_vars
FairStall ==
    /\ SpecStall
    /\ WF_vars(WorkerStep)
    /\ \A t \in Tasks : WF_vars(Send(t)) /\ WF_vars(SendFails(t))
    /\ \A h \in CancelTasks : WF_vars(CancelNotified(h))
    /\ \A j \in Ids : WF_vars(ProcExit(j))

\* ---------------------------------------------------------------------
\* One job, any checkpoint file, and GET /api/jobs/id.
ReadFiles ==
    {File(k, 0) : k \in {"garbage", "array", "nokey", "strnum"}}
        \cup {File("object", i) : i \in -MaxStep..MaxStep}

NextProgress ==
    \/ \E c \in Configs : njobs = 0 /\ CreateJob(c)
    \/ WorkerStep
    \/ \E j \in Ids : ProcExit(j)
    \/ \E j \in Ids, f \in ReadFiles : ProcWrite(j, f)
    \/ \E j \in Ids : GetJob(j)

SpecProgress == Init /\ [][NextProgress]_vars

\* The stats engine called by itself.  Durations in hundredths: 1.04 s and
\* 1.96 s are stored as 1.0 and 2.0 (and, for the estimates, 0.04 s as 0.0).
DefaultConfig == StatConfig(Absent, Absent, Absent)
Durations == {104, 196}
WindowTimes ==
    {("download" :> d) : d \in Durations}
        \cup {("download" :> d) @@ ("tts" :> 104) : d \in Durations}

\* one profile, its sample windows filled beyond the cap
NextWindow ==
    \E times \in WindowTimes :
        /\ jobs_completed < MaxRecords
        /\ RecordJobComplete(DefaultConfig, times, 10044, "cpu")

SpecWindow == Init /\ [][NextWindow]_vars

\* one profile, total_times filled beyond the cap
NextTotals ==
    \E times \in {<<>>, ("download" :> 104)} :
        /\ jobs_completed < MaxTotals
        /\ RecordJobComplete(DefaultConfig, times, 10044, "cpu")

SpecTotals == Init /\ [][NextTotals]_vars

\* several profiles, a few records each, and estimates asked of them
LearnTimes ==
    {<<>>, ("download" :> 196), ("tts" :> 4),
     [sid \in StageIds |-> 104], [sid \in StageIds |-> 4]}
CurrentStages == {-1, 0, 1, 5, 9, Len(STAGES), Len(STAGES) + 1}

NextEstimate ==
    \/ \E c \in StatConfigs, d \in Devices, times \in LearnTimes :
          /\ jobs_completed < MaxLearn
          /\ RecordJobComplete(c, times, 10044, d)
    \/ \E c \in StatConfigs, d \in Devices, k \in CurrentStages :
          Estimate(c, k, d)

SpecEstimate == Init /\ [][NextEstimate]_vars

\* submissions whose id may be one in use
NextIds == NextCore \/ \E c \in Configs, j \in Ids : CreateJobAgain(c, j)

SpecIds == Init /\ [][NextIds]_vars

TypeOK ==
    /\ njobs \in 0..MaxJobs
    /\ DOMAIN jobs = 1..njobs
    /\ wpc \in {"get", "notify", "spawn", "poll", "sleep", "finish", "crashed"}
    /\ cur \in Tasks \cup {NoTask}
    /\ now \in 0..MaxTime

\* ================================================================ claims
Running == {j \in DOMAIN jobs : jobs[j].status = "running"}

\* C1: in every reachable state at most one Job of the registry has status
\* running.
C1_AtMostOneRunning == Cardinality(Running) <= 1

\* a job runs, with its process alive, after an earlier job has ended
C1_Witness ==
    \E a, b \in DOMAIN jobs :
        /\ a # b
        /\ jobs[a].status \in Terminal
        /\ jobs[b].status = "running"
        /\ Alive(b)

Lifecycle ==
    {<<"queued", "running">>, <<"running", "completed">>,
     <<"running", "failed">>, <<"running", "cancelled">>}

\* C2: a Job's status changes only along queued->running, running->completed,
\* running->failed, running->cancelled; a terminal status never changes.
C2_OnlyLifecycleTransitions ==
    [][\A j \in DOMAIN jobs :
          \/ jobs'[j].status = jobs[j].status
          \/ <<jobs[j].status, jobs'[j].status>> \in Lifecycle]_vars

\* C3: when the worker observes the exit of a process that cancel_job has
\* terminated, the status it leaves is cancelled, whatever the exit code.
C3_CancelledStaysCancelled ==
    [][(wpc = "poll" /\ wpc' = "finish" /\ wjob \in accepted)
          => jobs'[wjob].status = "cancelled"]_vars

\* C4: no exception escapes _run_job: the worker task never ends.
C4_WorkerNeverCrashes == wpc # "crashed"

\* C5: with every process ending and the worker scheduled fairly, every
\* submitted job reaches completed, failed or cancelled.
C5_EveryJobEnds ==
    \A j \in Ids :
        (j \in DOMAIN jobs) ~> (j \in DOMAIN jobs /\ jobs[j].status \in Terminal)

\* C6: a job stays queued until every job submitted before it has reached a
\* terminal status.
C6_Fifo ==
    \A a, b \in DOMAIN jobs :
        (a < b /\ jobs[b].status # "queued") => jobs[a].status \in Terminal

\* the second job waits in the queue while the first one runs
C6_Witness ==
    \E a, b \in DOMAIN jobs :
        /\ a < b
        /\ jobs[a].status = "running"
        /\ Alive(a)
        /\ jobs[b].status = "queued"

\* the events a sink got from the hub (the "connected" snapshot is sent by
\* the WebSocket handler itself)
HubLog(s) == SelectSeq(log[s], LAMBDA e : e # "connected")

\* the prefixes of: started, progress*, finished | cancelled
RunPrefixes ==
    {<<"started">>,
     <<"started", "progress">>,
     <<"started", "finished">>,
     <<"started", "cancelled">>,
     <<"started", "progress", "finished">>,
     <<"started", "progress", "cancelled">>}

\* C7: a sink subscribed from the start of the run receives started, then
\* progress events, then one terminal event (finished or cancelled) and
\* nothing after it.
C7_EventSequence ==
    \A s \in Sinks :
        (HubLog(s) # <<>> /\ Head(HubLog(s)) = "started")
            => HubLog(s) \in RunPrefixes

Started == {"running"} \cup Terminal

\* C8: started_at is set iff the status is running or terminal, finished_at
\* is set iff the status is terminal.
C8_TimestampsMatchStatus ==
    \A j \in DOMAIN jobs :
        /\ (jobs[j].started_at # NoTime) <=> (jobs[j].status \in Started)
        /\ (jobs[j].finished_at # NoTime) <=> (jobs[j].status \in Terminal)

\* cancel_job has ended one job, the worker has gone on to the next
C8_Witness ==
    \E a, b \in DOMAIN jobs :
        /\ a \in accepted
        /\ jobs[a].status = "cancelled"
        /\ jobs[b].status = "running"
        /\ jobs[b].finished_at = NoTime

\* C9: created_at <= started_at once started_at is set, and
\* started_at <= finished_at once finished_at is set.
C9_TimestampsOrdered ==
    \A j \in DOMAIN jobs :
        /\ jobs[j].started_at # NoTime
              => jobs[j].created_at <= jobs[j].started_at
        /\ jobs[j].finished_at # NoTime
              => /\ jobs[j].started_at # NoTime
                 /\ jobs[j].started_at <= jobs[j].finished_at

\* cancel_job and then the worker have written finished_at of a job whose
\* three timestamps differ
C9_Witness ==
    \E j \in accepted :
        /\ wjob # j
        /\ jobs[j].created_at < jobs[j].started_at
        /\ jobs[j].started_at < jobs[j].finished_at

\* C10: when the worker observes the exit of the process, code 0 gives
\* completed, -SIGTERM and -SIGKILL give cancelled, any other code n gives
\* failed with error "Exit code: n", and finished_at is set.
C10_ExitOutcome ==
    [][(wpc = "poll" /\ wpc' = "finish")
          => LET c == proc[wjob].code
                 job == jobs'[wjob]
             IN  /\ job.finished_at # NoTime
                 /\ c = 0 => job.status = "completed"
                 /\ c \in {-15, -9} => job.status = "cancelled"
                 /\ c \notin {0, -15, -9}
                       => job.status = "failed" /\ job.error = ExitError(c)]_vars

\* a job nobody cancelled has gone queued, running, completed on exit code 0
C10_Witness ==
    \E j \in DOMAIN jobs :
        /\ j \notin accepted
        /\ jobs[j].config.input
        /\ proc[j] = ExitedProc(0)
        /\ jobs[j].status = "completed"
        /\ jobs[j].finished_at # NoTime

\* C11: when spawning or monitoring raises, the job ends failed with the
\* exception text as error and finished_at set, and the worker goes on to
\* publish finished for it.
C11_RaiseEndsFailedPublished ==
    [][/\ (wpc \in {"spawn", "sleep"} /\ wpc' = "finish")
            => /\ jobs'[wjob].status = "failed"
               /\ jobs'[wjob].error = ExcError
               /\ jobs'[wjob].finished_at # NoTime
       /\ (wpc = "finish" /\ jobs[wjob].error = ExcError /\ wpc' # "finish")
            => pub'[WorkerTask] = BeginNotify("finished", wjob)]_vars

\* what the claim calls nothing to cancel: the id is unknown, the job is
\* still queued, or its process has already exited
NothingToCancel(j) ==
    \/ j \notin DOMAIN jobs
    \/ jobs[j].status = "queued"
    \/ proc[j].state = "exited"

\* C12: a cancel_job call for an unknown id, a queued job or a job whose
\* process has exited returns False, publishes nothing and leaves the jobs
\* as they were.
C12_RefusedCancelChangesNothing ==
    [][\A h \in CancelTasks, j \in Ids :
          NothingToCancel(j)
              => /\ ~CanCancel(j)
                 /\ (CancelJob(h, j) \/ CancelRefused(h, j))
                       => /\ ret' = Ret("cancel", j, "false")
                          /\ UNCHANGED <<jobs, pub, log, subscribers, proc>>]_vars

\* cancel_job has returned False for a job that is still marked running
\* although its process has exited
C12_Witness ==
    \E j \in DOMAIN jobs :
        /\ ret = Ret("cancel", j, "false")
        /\ jobs[j].status = "running"
        /\ proc[j].state = "exited"
        /\ wpc = "sleep"

\* C13: delete on a running job returns false and keeps the job; delete on
\* any other existing job removes it from the registry and returns true.
C13_Delete ==
    [][\A j \in DOMAIN jobs :
          DeleteRequest(j)
              => IF jobs[j].status = "running"
                 THEN ret' = Ret("delete", j, "false") /\ j \in DOMAIN jobs'
                 ELSE ret' = Ret("delete", j, "true") /\ j \notin DOMAIN jobs']_vars

\* the jobs that reach completed in a step
Completing == {j \in DOMAIN jobs : jobs[j].status # "completed"
                                   /\ jobs'[j].status = "completed"}

\* C14: the stats store counts one more completed job whenever a job reaches
\* completed, and changes in no other step.
C14_StatsFollowCompletion ==
    [][IF Completing # {}
       THEN jobs_completed' = record_job_complete(jobs_completed)
       ELSE jobs_completed' = jobs_completed]_vars

\* C15: at most one spawned process is alive at any instant.
C15_OneProcessAlive == Cardinality({j \in Ids : Alive(j)}) <= 1

Range(f) == {f[i] : i \in DOMAIN f}

\* task t returns from _notify in this step
Returns(t) == pub[t].ev # "none" /\ pub'[t].ev = "none"

\* C16: a sink whose send fails is unsubscribed when the publish returns;
\* only sinks whose client is gone are ever unsubscribed; every other sink
\* the publish iterated has received its event; the failed send changes
\* nothing for the publisher.
C16_FailedSinkDropped ==
    [][/\ \A t \in Tasks :
            Returns(t)
              => /\ pub[t].dead \cap Range(subscribers'[pub[t].job]) = {}
                 /\ \A s \in Range(pub[t].subs) \ pub[t].dead :
                        pub[t].ev \in Range(log[s])
       /\ \A j \in Ids, s \in Sinks :
            (s \in Range(subscribers[j]) /\ s \notin Range(subscribers'[j]))
              => ~open[s]
       /\ \A t \in Tasks :
            pub'[t].dead # pub[t].dead /\ pub'[t].ev # "none"
              => jobs' = jobs /\ wpc' = wpc /\ pub'[t].idx = pub[t].idx + 1]_vars

\* _notify has unsubscribed a sink whose client went away, and another sink
\* of the same job, subscribed before it, has received the terminal event
C16_Witness ==
    \E a, b \in Sinks :
        /\ a # b
        /\ wsjob[a] = wsjob[b]
        /\ ws[a] = "subscribed" /\ ~open[a]
        /\ a \notin Range(subscribers[wsjob[a]])
        /\ b \in Range(subscribers[wsjob[b]])
        /\ HubLog(b) = <<"started", "progress", "finished">>
        /\ "started" \in Range(log[a])
        /\ "finished" \notin Range(log[a])

\* C17: a sink never receives the event of a publish that began before one
\* whose event it has already received.
C17_PublishOrder ==
    [][\A t \in Tasks, s \in Sinks :
          (/\ pub[t].ev # "none"
           /\ pub'[t].ev # "none"
           /\ pub'[t].idx = pub[t].idx + 1
           /\ pub[t].subs[pub'[t].idx] = s
           /\ s \notin pub'[t].dead)
              => t \notin late[s]]_vars

\* C18: a worker publishing progress gets its job to a terminal status,
\* whatever the sinks do.
C18_SlowSinkDoesNotStall ==
    \A j \in Ids :
        (wjob = j /\ wpc = "notify" /\ pub[WorkerTask].ev = "progress")
            ~> (j \in DOMAIN jobs /\ jobs[j].status \in Terminal)

\* C19: the first event a sink receives is the connected snapshot.
C19_ConnectedFirst ==
    \A s \in Sinks : log[s] # <<>> => Head(log[s]) = "connected"

\* a sink that joined a running job: snapshot first, then the hub's events
C19_Witness ==
    \E s \in Sinks :
        /\ Len(log[s]) >= 3
        /\ log[s][1] = "connected"
        /\ log[s][2] = "progress"
        /\ log[s][3] \in {"finished", "cancelled"}

\* occurrences of id in q
Count(q, id) == Cardinality({i \in DOMAIN q : q[i] = id})

\* C20: create_job adds one job, queued and with started_at and finished_at
\* unset, enqueues its id once, and touches neither the other jobs nor the
\* worker; no id is ever in the queue twice.
C20_Submit ==
    [][/\ njobs' = njobs + 1
            => /\ njobs' \notin DOMAIN jobs
               /\ DOMAIN jobs' = DOMAIN jobs \cup {njobs'}
               /\ jobs'[njobs'].status = "queued"
               /\ jobs'[njobs'].started_at = NoTime
               /\ jobs'[njobs'].finished_at = NoTime
               /\ Count(queue, njobs') = 0
               /\ Count(queue', njobs') = 1
               /\ \A j \in DOMAIN jobs : jobs'[j] = jobs[j]
               /\ UNCHANGED <<wpc, wjob, cur, pub, proc>>
       /\ \A j \in Ids : Count(queue', j) <= 1]_vars

\* a job submitted while another one runs waits in the queue
C20_Witness ==
    \E a, b \in DOMAIN jobs :
        /\ jobs[a].status = "running"
        /\ Alive(a)
        /\ jobs[b].status = "queued"
        /\ jobs[b].created_at > jobs[a].started_at
        /\ queue = <<b>>

\* C21: no Job is created for a configuration that lacks a field the run
\* needs.
C21_IncompleteConfigRejected ==
    [][njobs' = njobs + 1 => jobs'[njobs'].config.input]_vars

NoProgressYet ==
    [current_stage |-> 0, total_stages |-> 10, percent |-> 0,
     stage_name |-> "download"]

\* C22: with the checkpoint file absent or not parsing, the snapshot is built
\* without an exception and its progress is always the same: stage 0, 0 %.
C22_NoCheckpointNoProgress ==
    (seen.job # 0 /\ seen.file.kind \in {"absent", "garbage"})
        => ~seen.raised /\ seen.progress = NoProgressYet

\* a snapshot built from a file that does not parse
C22_Witness ==
    seen.job # 0 /\ seen.file.kind = "garbage" /\ ~seen.raised

\* C23: for last_step_num i in 0..10, progress is current_stage i,
\* total_stages 10, percent 10 * i, and stage_name the catalog entry after
\* the first i, or "completed" from i = 10 on.
C23_ProgressOfStage ==
    (seen.job # 0 /\ seen.file.kind = "object" /\ seen.file.num >= 0)
        => LET i == seen.file.num IN
           /\ ~seen.raised
           /\ i <= 10 => /\ seen.progress.current_stage = i
                         /\ seen.progress.total_stages = 10
                         /\ seen.progress.percent = 10 * i
           /\ seen.progress.stage_name =
                 IF i < 10 THEN stages[i + 1] ELSE "completed"

\* snapshots of a checkpoint at stage 9: 90 %, the last stage pending
C23_Witness ==
    /\ seen.file = File("object", 9)
    /\ seen.progress.percent = 90
    /\ seen.progress.stage_name = "mux"

\* C24: a negative last_step_num counts as 0 and one above the catalog
\* length as the catalog length.
C24_IndexClamped ==
    (seen.job # 0 /\ seen.file.kind = "object")
        => /\ seen.file.num < 0
              => ~seen.raised /\ seen.progress = NoProgressYet
           /\ seen.file.num > 10
              => ~seen.raised /\ seen.progress.stage_name = "completed"

Min(a, b) == IF a < b THEN a ELSE b
Abs(a) == IF a < 0 THEN -a ELSE a

\* the samples stored for a profile key and stage id
SamplesOf(st, key, sid) ==
    IF key \in DOMAIN st /\ sid \in DOMAIN st[key] THEN st[key][sid].samples
    ELSE <<>>

\* the entry after recording the durations of q, in order, from entry e
RECURSIVE RecordAll(_, _)
RecordAll(e, q) ==
    IF q = <<>> THEN e ELSE RecordAll(AddSample(e, Head(q)), Tail(q))

\* C25: the sample list of a profile and stage has length min(n, 10) after
\* n samples, and each record call puts its sample last and, beyond 10,
\* drops the oldest; 15 samples leave the last 10.
C25_WindowBounded ==
    [][/\ \A key \in ProfileKeys, sid \in StageIds :
            LET old == SamplesOf(stage_times, key, sid)
                new == SamplesOf(stage_times', key, sid)
            IN  /\ Len(new) = Min(nsamples'[key, sid], 10)
                /\ IF nsamples'[key, sid] = nsamples[key, sid]
                   THEN new = old
                   ELSE \E x \in {0, 10, 20} :
                           new = IF Len(old) < 10 THEN Append(old, x)
                                 ELSE Append(Tail(old), x)
       /\ RecordAll(NewEntry, [i \in 1..15 |-> 100 * i]).samples
             = [i \in 1..10 |-> 10 * (i + 5)]]_vars

\* 15 samples recorded for one stage, the oldest of them different from the
\* ones kept
C25_Witness ==
    \E key \in ProfileKeys :
        /\ nsamples[key, "download"] = 15
        /\ SamplesOf(stage_times, key, "download")
              = [i \in 1..10 |-> IF i <= 5 THEN 20 ELSE 10]

\* C26: the stored avg is the mean of the stored samples, to one decimal;
\* the values 1..10 give 5.5.
C26_AvgIsWindowMean ==
    /\ \A key \in DOMAIN stage_times :
          \A sid \in DOMAIN stage_times[key] :
              LET e == stage_times[key][sid]
              IN  2 * Abs(e.avg * Len(e.samples) - SumSeq(e.samples))
                     <= Len(e.samples)
    /\ RecordAll(NewEntry, [i \in 1..10 |-> 100 * i]).avg = 55

\* a full window of 1.0 and 2.0 after an eviction, with a mean between them
C26_Witness ==
    \E key \in DOMAIN stage_times :
        /\ "download" \in DOMAIN stage_times[key]
        /\ nsamples[key, "download"] > 10
        /\ stage_times[key]["download"].avg = 13

\* C27: after n record calls total_times holds the entries of the last
\* min(n, 50) calls, in the order of the calls.
C27_TotalsBounded ==
    /\ Len(total_times) = Min(jobs_completed, 50)
    /\ \A i \in 1..Len(total_times) :
          total_times[i].timestamp = jobs_completed - Len(total_times) + i

\* 52 calls: the entries of the first two are gone
C27_Witness ==
    /\ jobs_completed = 52
    /\ Len(total_times) = 50
    /\ total_times[1].timestamp = 3

\* est has just been returned by estimate_remaining
Estimated == est' # est

\* C28: a pending stage is estimated by the profile's average when the
\* profile holds samples for it, whatever their value, and by the static
\* default only when it holds none.
C28_LearnedAverageUsed ==
    [][Estimated =>
          LET key == ProfileKey(est'.config, est'.device)
              r == est'.result
          IN  \A sid \in StageIds :
                 r.stage_estimates[sid].status = "pending"
                    => r.stage_estimates[sid].est_seconds =
                          IF SamplesOf(stage_times, key, sid) # <<>>
                          THEN stage_times[key][sid].avg
                          ELSE _default_stage_time(sid, est'.config,
                                                   est'.device)]_vars

\* C29: stages up to current_stage are done with no estimate, the later ones
\* pending with one, and eta_seconds is the rounded sum of these.
C29_DonePendingEta ==
    [][Estimated =>
          LET r == est'.result
              pending == {sid \in StageIds :
                             r.stage_estimates[sid].status = "pending"}
              sum == SumSeq([i \in 1..Len(STAGES) |->
                               IF STAGES[i] \in pending
                               THEN r.stage_estimates[STAGES[i]].est_seconds
                               ELSE 0])
          IN  /\ \A i \in 1..Len(STAGES) :
                    IF i <= est'.current_stage
                    THEN r.stage_estimates[STAGES[i]] = [status |-> "done"]
                    ELSE /\ STAGES[i] \in pending
                         /\ "est_seconds" \in DOMAIN r.stage_estimates[STAGES[i]]
              /\ 2 * Abs(10 * r.eta_seconds - sum) <= 10]_vars

\* an estimate from a learned profile in the middle of the run: 1.0 s for
\* each of the five pending stages
C29_Witness ==
    /\ est.asked
    /\ est.current_stage = 5
    /\ est.result.confidence = "high"
    /\ est.result.eta_seconds = 5

FullyLearned(key) ==
    key \in DOMAIN stage_times /\ StageIds \subseteq DOMAIN stage_times[key]

\* C30: with learned data for every stage, eta_seconds at stage k is at
\* least eta_seconds at stage k + 1, for k in 0..9.
C30_EtaMonotone ==
    \A c \in StatConfigs, d \in Devices :
        FullyLearned(ProfileKey(c, d))
            => \A k \in 0..9 :
                  estimate_remaining(stage_times, c, k, d).eta_seconds
                     >= estimate_remaining(stage_times, c, k + 1, d).eta_seconds

\* a profile with samples for every stage, asked for an estimate
C30_Witness ==
    /\ est.asked
    /\ FullyLearned(ProfileKey(est.config, est.device))
    /\ est.result.eta_seconds > 0

\* C31: confidence is high when the profile of the key has entries for at
\* least 5 stages, medium when a profile exists for the key with fewer, and
\* low only when no profile exists for the key.
C31_ConfidenceLevels ==
    [][Estimated =>
          LET key == ProfileKey(est'.config, est'.device)
          IN  est'.result.confidence =
                 IF key \notin DOMAIN stage_times THEN "low"
                 ELSE IF Cardinality(DOMAIN stage_times[key]) >= 5 THEN "high"
                 ELSE "medium"]_vars

\* C32: a Job holds a process handle only while its status is running.
C32_HandleOnlyWhileRunning ==
    \A j \in DOMAIN jobs : jobs[j].process => jobs[j].status = "running"

\* create_job has just put an id on the queue
Submitted == Len(queue') = Len(queue) + 1

\* C33: no step removes a Job from the registry, and submit stores its Job
\* under an id that was not in use, so it replaces none.
C33_RegistryOnlyGrows ==
    [][/\ DOMAIN jobs \subseteq DOMAIN jobs'
       /\ Submitted => queue'[Len(queue')] \notin DOMAIN jobs]_vars

\* the stage ids stored for a profile key
StagesOf(st, key) == DOMAIN ProfileOf(st, key)

C35_CancelledOnlyByCancel ==
    \A j \in DOMAIN jobs : jobs[j].status = "cancelled" => j \in accepted

\* the process of j has ended by SIGTERM or SIGKILL
Signalled(j) ==
    proc[j].state = "exited" /\ proc[j].code \in {-SIGTERM, -SIGKILL}

\* C35, amended: a job has status cancelled only if a cancel_job call for it
\* was accepted or its process ended by SIGTERM or SIGKILL, whoever sent the
\* signal.
C35_CancelledByCancelOrSignal ==
    \A j \in DOMAIN jobs :
        jobs[j].status = "cancelled" => j \in accepted \/ Signalled(j)

\* a job nobody cancelled, left cancelled by the worker after its process
\* was killed from outside
C35_Witness ==
    \E j \in DOMAIN jobs :
        /\ j \notin accepted
        /\ jobs[j].status = "cancelled"
        /\ proc[j] = ExitedProc(-SIGKILL)
        /\ wjob # j

\* C36: whenever a Job's status is completed, failed or cancelled, the
\* process spawned for it is no longer alive.
C36_TerminalMeansProcessGone ==
    \A j \in DOMAIN jobs : jobs[j].status \in Terminal => ~Alive(j)

\* C37: building a job snapshot never raises, whatever value the checkpoint
\* file parses to.
C37_SnapshotNeverRaises ==
    seen.job # 0 => ~seen.raised

\* C40: for every integer checkpoint stage index, the reported progress has
\* 0 <= percent <= 100 and 0 <= current_stage <= total_stages.
C40_ProgressInRange ==
    (seen.job # 0 /\ seen.file.kind = "object" /\ ~seen.raised)
        => /\ 0 <= seen.progress.percent
           /\ seen.progress.percent <= 100
           /\ 0 <= seen.progress.current_stage
           /\ seen.progress.current_stage <= seen.progress.total_stages

\* every publish for j is over: the status is terminal, no _notify for j is
\* running and the worker has left _run_job for j
Settled(j) ==
    /\ j \in DOMAIN jobs
    /\ jobs[j].status \in Terminal
    /\ Publishing(j) = {}
    /\ wjob # j

\* C38: a sink whose connected snapshot showed a non-terminal status and
\* that stays connected receives the job's terminal event: once the sink is
\* registered and every publish for the job is over, finished or cancelled
\* is among the events it has received.
C38_NoEventLostAtConnect ==
    \A s \in Sinks :
        (shown[s] = "live" /\ open[s] /\ ws[s] = "subscribed"
            /\ Settled(wsjob[s]))
        => \E i \in DOMAIN log[s] : log[s][i] \in {"finished", "cancelled"}

\* the last request ended with the handler answering "cancelled" for j:
\* at once, or on the return of an accepted cancel_job
SaidCancelled(j) ==
    ret = Ret("request", j, "cancelled") \/ ret = Ret("cancel", j, "true")

\* C39: when the cancel request handler answers cancelled for a job,
\* cancel_job accepted the cancellation and the job's final status is
\* cancelled.
C39_CancelledAnswerIsTrue ==
    \A j \in Ids :
        SaidCancelled(j)
            => /\ j \in accepted
               /\ Settled(j) => jobs[j].status = "cancelled"

====
